---- MODULE Spec2Model ----
(***************************************************************************)
(* Catalog filter engine of the Miden ecosystem page (src/app/page.tsx).   *)
(*                                                                         *)
(* Strings are sequences of one-character strings, so that toLowerCase,    *)
(* includes and the code-unit order of Array.prototype.sort are computed   *)
(* and not assumed.  The catalog is the build-time fixture allProjects; it *)
(* is drawn once, in Init, from the catalogs of at most MaxProjects        *)
(* projects over ProjectPool, and never changes afterwards.  Every event   *)
(* of the page is one action: the handler's state updates followed by the  *)
(* re-render React performs when the handler returns.                      *)
(***************************************************************************)
EXTENDS Integers, Sequences, FiniteSets, TLC

\* ------------------------------------------------------------------ bounds
MaxProjects == 2   \* longest catalog drawn in Init
MaxTermLen == 2    \* longest text typed into the search box

\* ----------------------------------------------------------------- strings
\* characters the visitor can type
TermChars == {"a", "A", " "}

\* UTF-16 code unit of a character (the order used by the default sort)
CharCode(c) ==
  CASE c = " " -> 32
    [] c = "A" -> 65
    [] c = "B" -> 66
    [] c = "a" -> 97
    [] c = "b" -> 98

LowerChar(c) ==
  CASE c = "A" -> "a"
    [] c = "B" -> "b"
    [] OTHER -> c

\* String.prototype.toLowerCase
toLowerCase(s) == [i \in 1..Len(s) |-> LowerChar(s[i])]

\* String.prototype.includes: t occurs in s at some offset
includes(s, t) ==
  \E off \in 0..(Len(s) - Len(t)) : SubSeq(s, off + 1, off + Len(t)) = t

\* strings of length at most n over the characters cs
StringsUpTo(cs, n) == UNION {[1..k -> cs] : k \in 0..n}

Terms == StringsUpTo(TermChars, MaxTermLen)

\* ----------------------------------------------------------------- catalog
TagA == <<"A">>
TagB == <<"B">>
Tagb == <<"b">>
TagAb == <<"A", "b">>

\* interface Project (link and imageUrl play no part in filtering)
MkProject(name, description, tags) ==
  [name |-> name, description |-> description, tags |-> tags]

\* Three projects that between them have: tags [A,B] and [A] (all or part of
\* a selection carried); tags "B" and "b" differing only in case, and "Ab" with
\* "A" as a proper substring; a name, a description and a tag that each hold
\* a typed term found in no other field of the project.
ProjectPool ==
  { MkProject(<<"a", "A">>, <<>>, <<TagA, TagB>>),
    MkProject(<<"b">>, <<"b", " ", "a">>, <<TagA>>),
    MkProject(<<" ">>, <<"B">>, <<TagAb, Tagb>>) }

\* a catalog: projects in order, ids unique and stable (the position)
WithIds(ps) ==
  [i \in 1..Len(ps) |->
     [id |-> i, name |-> ps[i].name, description |-> ps[i].description,
      tags |-> ps[i].tags]]

\* a catalog lists a project of the pool at most once
Catalogs ==
  {WithIds(ps) :
     ps \in {q \in UNION {[1..n -> ProjectPool] : n \in 0..MaxProjects} :
               \A i, j \in 1..Len(q) : i # j => q[i] # q[j]}}

\* ---------------------------------------------------------- tag vocabulary
\* s < t in the order of the default Array.prototype.sort (code units)
RECURSIVE StrLess(_, _)
StrLess(s, t) ==
  IF s = <<>> THEN t # <<>>
  ELSE IF t = <<>> THEN FALSE
  ELSE IF CharCode(Head(s)) # CharCode(Head(t))
       THEN CharCode(Head(s)) < CharCode(Head(t))
       ELSE StrLess(Tail(s), Tail(t))

\* tagSet.add(tag): a Set keeps insertion order and ignores an equal string
SetAdd(order, tag) ==
  IF \E i \in 1..Len(order) : order[i] = tag THEN order ELSE Append(order, tag)

RECURSIVE AddAll(_, _)
AddAll(order, tags) ==
  IF tags = <<>> THEN order ELSE AddAll(SetAdd(order, Head(tags)), Tail(tags))

RECURSIVE CollectTags(_, _)
CollectTags(order, projects) ==
  IF projects = <<>> THEN order
  ELSE CollectTags(AddAll(order, Head(projects).tags), Tail(projects))

\* insertion of x into the sorted sequence s
RECURSIVE InsertSorted(_, _)
InsertSorted(s, x) ==
  IF s = <<>> THEN <<x>>
  ELSE IF StrLess(x, Head(s)) THEN <<x>> \o s
  ELSE <<Head(s)>> \o InsertSorted(Tail(s), x)

RECURSIVE Sort(_)
Sort(s) == IF s = <<>> THEN <<>> ELSE InsertSorted(Sort(Tail(s)), Head(s))

\* the tags in insertion order, never sorted
getAllUniqueTagsUnsorted(projects) == CollectTags(<<>>, projects)

getAllUniqueTags(projects) == Sort(CollectTags(<<>>, projects))

\* -------------------------------------------------------------- predicates
\* array.some(x => x = elem-wise test), array as a sequence
Range(s) == {s[i] : i \in 1..Len(s)}

\* matchesSearch without the description clause
matchesSearchNoDescription(project, term) ==
  \/ term = <<>>
  \/ includes(toLowerCase(project.name), term)
  \/ \E tag \in Range(project.tags) : includes(toLowerCase(tag), term)

\* matchesSearch where an empty term matches nothing
matchesSearchEmptyTermNone(project, term) ==
  /\ term # <<>>
  /\ \/ includes(toLowerCase(project.name), term)
     \/ includes(toLowerCase(project.description), term)
     \/ \E tag \in Range(project.tags) : includes(toLowerCase(tag), term)

matchesSearch(project, term) ==
  \/ term = <<>>
  \/ includes(toLowerCase(project.name), term)
  \/ includes(toLowerCase(project.description), term)
  \/ \E tag \in Range(project.tags) : includes(toLowerCase(tag), term)

\* matchesTags with some in place of every
matchesTagsSome(project, activeTags) ==
  \/ Cardinality(activeTags) = 0
  \/ \E selectedTag \in activeTags :
       \E projectTag \in Range(project.tags) :
         toLowerCase(projectTag) = toLowerCase(selectedTag)

\* matchesTags where an empty selection matches nothing
matchesTagsEmptySelectionNone(project, activeTags) ==
  /\ Cardinality(activeTags) > 0
  /\ \A selectedTag \in activeTags :
       \E projectTag \in Range(project.tags) :
         toLowerCase(projectTag) = toLowerCase(selectedTag)

\* matchesTags that also wants every tag of the project to be selected
matchesTagsExactSet(project, activeTags) ==
  \/ Cardinality(activeTags) = 0
  \/ /\ \A selectedTag \in activeTags :
          \E projectTag \in Range(project.tags) :
            toLowerCase(projectTag) = toLowerCase(selectedTag)
     /\ \A projectTag \in Range(project.tags) :
          \E selectedTag \in activeTags :
            toLowerCase(projectTag) = toLowerCase(selectedTag)

\* matchesTags comparing the tags as written
matchesTagsCaseSensitive(project, activeTags) ==
  \/ Cardinality(activeTags) = 0
  \/ \A selectedTag \in activeTags :
       \E projectTag \in Range(project.tags) : projectTag = selectedTag

\* matchesTags with includes in place of ===
matchesTagsSubstring(project, activeTags) ==
  \/ Cardinality(activeTags) = 0
  \/ \A selectedTag \in activeTags :
       \E projectTag \in Range(project.tags) :
         includes(toLowerCase(projectTag), toLowerCase(selectedTag))

matchesTags(project, activeTags) ==
  \/ Cardinality(activeTags) = 0
  \/ \A selectedTag \in activeTags :
       \E projectTag \in Range(project.tags) :
         toLowerCase(projectTag) = toLowerCase(selectedTag)

\* the filter callback returning matchesSearch || matchesTags
computeFilteredEither(projects, rawTerm, tags) ==
  LET term == toLowerCase(rawTerm)
  IN SelectSeq(projects,
               LAMBDA project : matchesSearch(project, term) \/ matchesTags(project, tags))

\* the filter callback run on the term as typed
computeFilteredRawTerm(projects, rawTerm, tags) ==
  SelectSeq(projects,
            LAMBDA project : matchesSearch(project, rawTerm) /\ matchesTags(project, tags))

\* the callback of useMemo: allProjects.filter(...) under the lower-cased term
computeFiltered(projects, rawTerm, tags) ==
  LET term == toLowerCase(rawTerm)
  IN SelectSeq(projects,
               LAMBDA project : matchesSearch(project, term) /\ matchesTags(project, tags))

\* ------------------------------------------------------------------- state
VARIABLES
  allProjects,       \* the catalog fixture (fixed for the session)
  uniqueTags,        \* useMemo(() => getAllUniqueTags(allProjects), [])
  searchTerm,        \* useState('')
  selectedTags,      \* useState(new Set()): the members of the current Set
  filteredProjects,  \* the value held by useMemo(..., [searchTerm, selectedTags])
  event,             \* the inbound event handled last
  renderLog          \* the filter states the useMemo callback ran on while
                     \* the last event was handled, in order

vars == <<allProjects, uniqueTags, searchTerm, selectedTags, filteredProjects,
          event, renderLog>>

FilterState(term, tags) == [term |-> term, tags |-> tags]

\* --------------------------------------------------- state updates, render
\* a queued state update; newObject tells whether the Set handed to
\* setSelectedTags is an object other than the one in state
setSearchTerm(value) ==
  [setsTerm |-> TRUE, term |-> value, setsTags |-> FALSE, tags |-> {},
   newObject |-> FALSE]

setSelectedTags(value, newObject) ==
  [setsTerm |-> FALSE, term |-> <<>>, setsTags |-> TRUE, tags |-> value,
   newObject |-> newObject]

ApplyUpdate(st, u) ==
  [term |-> IF u.setsTerm THEN u.term ELSE st.term,
   tags |-> IF u.setsTags THEN u.tags ELSE st.tags,
   fresh |-> st.fresh \/ (u.setsTags /\ u.newObject)]

RECURSIVE ApplyAll(_, _)
ApplyAll(st, us) ==
  IF us = <<>> THEN st ELSE ApplyAll(ApplyUpdate(st, Head(us)), Tail(us))

\* a render after every single update
RECURSIVE FlushEach(_, _)
FlushEach(st, us) ==
  IF us = <<>> THEN <<>>
  ELSE LET s1 == ApplyUpdate([st EXCEPT !.fresh = FALSE], Head(us))
       IN <<s1>> \o FlushEach(s1, Tail(us))

\* The updates queued by one event handler are applied together and the
\* component renders once, after the handler has returned: the sequence of
\* hook states the component function is run on.
Flush(st, us) == <<ApplyAll(st, us)>>

\* useMemo(callback, [searchTerm, selectedTags]) over successive renders:
\* the callback runs again when the term differs (by value) or the Set
\* differs (by identity) from the one of the previous render
RECURSIVE useMemo(_, _, _)
useMemo(memo, renders, projects) ==
  IF renders = <<>> THEN memo
  ELSE LET r == Head(renders)
           changed == r.term # memo.term \/ r.fresh
           next == IF changed
                   THEN [term |-> r.term,
                         value |-> computeFiltered(projects, r.term, r.tags),
                         log |-> Append(memo.log, FilterState(r.term, r.tags))]
                   ELSE memo
       IN useMemo(next, Tail(renders), projects)

\* one inbound event: the handler's updates, then the re-render
Dispatch(ev, updates) ==
  \E renders \in {Flush([term |-> searchTerm, tags |-> selectedTags,
                         fresh |-> FALSE], updates)} :
    /\ searchTerm' = renders[Len(renders)].term
    /\ selectedTags' = renders[Len(renders)].tags
    /\ event' = ev
    /\ \E memo \in {useMemo([term |-> searchTerm, value |-> filteredProjects,
                             log |-> <<>>], renders, allProjects)} :
         /\ filteredProjects' = memo.value
         /\ renderLog' = memo.log
    /\ UNCHANGED <<allProjects, uniqueTags>>

\* ---------------------------------------------------------------- handlers
\* the text without its leading and trailing spaces
RECURSIVE TrimStart(_)
TrimStart(s) == IF s # <<>> /\ Head(s) = " " THEN TrimStart(Tail(s)) ELSE s

RECURSIVE TrimEnd(_)
TrimEnd(s) ==
  IF s # <<>> /\ s[Len(s)] = " " THEN TrimEnd(SubSeq(s, 1, Len(s) - 1)) ELSE s

Trim(s) == TrimEnd(TrimStart(s))

\* a handler that trims the typed text
handleSearchChangeTrimmed(value) == <<setSearchTerm(Trim(value))>>

handleSearchChange(value) == <<setSearchTerm(value)>>

\* an updater that only ever adds
toggleUpdaterAddOnly(prevSelectedTags, tag) == prevSelectedTags \cup {tag}

\* an updater that selects only the clicked tag
toggleUpdaterSelectOnly(prevSelectedTags, tag) ==
  IF tag \in prevSelectedTags THEN prevSelectedTags \ {tag} ELSE {tag}

\* an updater that stores the lower-cased tag
toggleUpdaterLowerCased(prevSelectedTags, tag) ==
  IF toLowerCase(tag) \in prevSelectedTags
  THEN prevSelectedTags \ {toLowerCase(tag)}
  ELSE prevSelectedTags \cup {toLowerCase(tag)}

\* the updater passed to setSelectedTags: a copy of the previous Set with
\* tag removed when present and added otherwise
toggleUpdater(prevSelectedTags, tag) ==
  IF tag \in prevSelectedTags
  THEN prevSelectedTags \ {tag}
  ELSE prevSelectedTags \cup {tag}

\* a handler that toggles the tag in the previous Set itself and hands the
\* same object back
handleTagClickInPlace(tag) ==
  <<setSelectedTags(toggleUpdater(selectedTags, tag), FALSE)>>

handleTagClick(tag) == <<setSelectedTags(toggleUpdater(selectedTags, tag), TRUE)>>

\* a Clear Filters handler that resets the term as well
clearFiltersAndSearch == <<setSelectedTags({}, TRUE), setSearchTerm(<<>>)>>

clearFiltersOnClick == <<setSelectedTags({}, TRUE)>>

\* the handler without setSearchTerm('')
clearSearchAndFiltersTagsOnly == <<setSelectedTags({}, TRUE)>>

clearSearchAndFiltersOnClick == <<setSelectedTags({}, TRUE), setSearchTerm(<<>>)>>

\* ------------------------------------------------------------------ events
Init ==
  /\ allProjects \in Catalogs
  /\ uniqueTags = getAllUniqueTags(allProjects)
  /\ searchTerm = <<>>
  /\ selectedTags = {}
  /\ filteredProjects = computeFiltered(allProjects, <<>>, {})
  /\ event = "init"
  /\ renderLog = <<FilterState(<<>>, {})>>

\* the search input's onChange
SetSearchTermEvent(text) == Dispatch("setSearchTerm", handleSearchChange(text))

\* a click on the i-th tag chip
ToggleEvent(i) == Dispatch("toggle", handleTagClick(uniqueTags[i]))

\* "Clear Filters" rendered only while two or more tags are selected
ClearTagsEventMoreThanOne ==
  /\ Cardinality(selectedTags) > 1
  /\ Dispatch("clearTags", clearFiltersOnClick)

\* "Clear Filters", rendered while a tag is selected
ClearTagsEvent ==
  /\ Cardinality(selectedTags) > 0
  /\ Dispatch("clearTags", clearFiltersOnClick)

\* "Clear Search & Filters" rendered whatever the number of projects shown
ClearAllEventAnyResult ==
  /\ (searchTerm # <<>> \/ Cardinality(selectedTags) > 0)
  /\ Dispatch("clearAll", clearSearchAndFiltersOnClick)

\* "Clear Search & Filters", rendered in the "No projects found" branch
\* while the term is non-empty or a tag is selected
ClearAllEvent ==
  /\ ~(Len(filteredProjects) > 0)
  /\ (searchTerm # <<>> \/ Cardinality(selectedTags) > 0)
  /\ Dispatch("clearAll", clearSearchAndFiltersOnClick)

Next ==
  \/ \E text \in Terms : SetSearchTermEvent(text)
  \/ \E i \in DOMAIN uniqueTags : ToggleEvent(i)
  \/ ClearTagsEvent
  \/ ClearAllEvent

Spec == Init /\ [][Next]_vars

\* ------------------------------------------- the derivation as a function
\* The useMemo callback run on any filter state: the catalog, the term and a
\* selection of any tag strings (handleTagClick takes any string) are drawn
\* in FilterInit and RunFilter computes the Visible Set from them.
TagPool == {TagA, TagB, Tagb, TagAb}

FilterInit ==
  /\ allProjects \in Catalogs
  /\ uniqueTags = getAllUniqueTags(allProjects)
  /\ searchTerm \in Terms
  /\ selectedTags \in SUBSET TagPool
  /\ filteredProjects = <<>>
  /\ event = "init"
  /\ renderLog = <<>>

RunFilter ==
  /\ event = "init"
  /\ filteredProjects' = computeFiltered(allProjects, searchTerm, selectedTags)
  /\ renderLog' = <<FilterState(searchTerm, selectedTags)>>
  /\ event' = "filter"
  /\ UNCHANGED <<allProjects, uniqueTags, searchTerm, selectedTags>>

FilterNext == RunFilter

FilterSpec == FilterInit /\ [][FilterNext]_vars

\* ------------------------------------------------------------- type invariant
TypeOK ==
  /\ allProjects \in Catalogs
  /\ searchTerm \in Terms
  /\ selectedTags \subseteq Range(uniqueTags)
  /\ event \in {"init", "setSearchTerm", "toggle", "clearTags", "clearAll"}

\* ========================================================== the claims
\* does the catalog's i-th project appear in the Visible Set
Visible(i) == \E k \in 1..Len(filteredProjects) : filteredProjects[k].id = i

VisibleIds == [k \in 1..Len(filteredProjects) |-> filteredProjects[k].id]

\* t occurs in s: every character of t is found from some offset on
OccursIn(t, s) ==
  \E off \in 0..Len(s) :
    \A k \in 1..Len(t) : off + k <= Len(s) /\ s[off + k] = t[k]

\* s and t are the same string up to letter case
SameIgnoringCase(s, t) ==
  /\ Len(s) = Len(t)
  /\ \A k \in 1..Len(s) : LowerChar(s[k]) = LowerChar(t[k])

\* every selected tag has a project tag equal to it up to case
CarriesAll(project, sel) ==
  \A t \in sel : \E k \in 1..Len(project.tags) : SameIgnoringCase(project.tags[k], t)

\* the lower-cased term occurs in the lower-cased name, description or a tag
TermFound(project, rawTerm) ==
  LET lt == toLowerCase(rawTerm)
  IN \/ OccursIn(lt, toLowerCase(project.name))
     \/ OccursIn(lt, toLowerCase(project.description))
     \/ \E k \in 1..Len(project.tags) : OccursIn(lt, toLowerCase(project.tags[k]))

\* C1: in every reachable state the Visible Set is the subsequence of the
\* catalog, in catalog order, of exactly the projects passing both the search
\* predicate and the tag predicate under the current term and selection.
C1_VisibleIsOrderedSelection ==
  /\ \A k \in 1..Len(filteredProjects) :
       /\ filteredProjects[k].id \in 1..Len(allProjects)
       /\ filteredProjects[k] = allProjects[filteredProjects[k].id]
  /\ \A k \in 1..(Len(filteredProjects) - 1) :
       filteredProjects[k].id < filteredProjects[k + 1].id
  /\ \A i \in 1..Len(allProjects) :
       Visible(i) <=> /\ matchesSearch(allProjects[i], toLowerCase(searchTerm))
                      /\ matchesTags(allProjects[i], selectedTags)

\* a two-project catalog filtered by a term and a tag down to its second project
C1_Witness ==
  /\ event = "toggle"
  /\ searchTerm # <<>>
  /\ selectedTags # {}
  /\ Len(allProjects) >= 2
  /\ filteredProjects = <<allProjects[2]>>

\* C2: with a non-empty selection a project passes the tag predicate iff every
\* selected tag equals, up to letter case and as a whole string, one of the
\* project's tags; with tags [A,B] and [A], {A,B} shows [P1] and {A} [P1,P2].
C2_ConjunctiveExactTags ==
  /\ selectedTags # {} =>
       \A i \in 1..Len(allProjects) :
         Visible(i) <=> /\ matchesSearch(allProjects[i], toLowerCase(searchTerm))
                        /\ CarriesAll(allProjects[i], selectedTags)
  /\ ( /\ Len(allProjects) = 2
       /\ allProjects[1].tags = <<TagA, TagB>>
       /\ allProjects[2].tags = <<TagA>>
       /\ searchTerm = <<>> ) =>
       /\ selectedTags = {TagA, TagB} => VisibleIds = <<1>>
       /\ selectedTags = {TagA} => VisibleIds = <<1, 2>>

\* tags [A,B] and [A], selection {A,B}: only the first project is shown
C2_Witness ==
  /\ event = "toggle"
  /\ Len(allProjects) = 2
  /\ allProjects[1].tags = <<TagA, TagB>>
  /\ allProjects[2].tags = <<TagA>>
  /\ searchTerm = <<>>
  /\ selectedTags = {TagA, TagB}
  /\ VisibleIds = <<1>>

\* C3: for a non-empty term a project passes the search predicate iff the
\* lower-cased term is a substring of its lower-cased name, or description,
\* or of one of its lower-cased tags.
C3_SearchIsInclusiveOr ==
  searchTerm # <<>> =>
    \A i \in 1..Len(allProjects) :
      Visible(i) <=> /\ TermFound(allProjects[i], searchTerm)
                     /\ matchesTags(allProjects[i], selectedTags)

\* a project shown through its description alone, next to one that is excluded
C3_Witness ==
  /\ event = "setSearchTerm"
  /\ searchTerm # <<>>
  /\ Len(allProjects) = 2
  /\ \E i \in 1..Len(allProjects) :
       /\ Visible(i)
       /\ ~OccursIn(toLowerCase(searchTerm), toLowerCase(allProjects[i].name))
       /\ \A k \in 1..Len(allProjects[i].tags) :
            ~OccursIn(toLowerCase(searchTerm), toLowerCase(allProjects[i].tags[k]))
  /\ \E i \in 1..Len(allProjects) : ~Visible(i)

\* C4: search terms that differ only in letter case give the same Visible Set,
\* whatever the catalog and the selection.
C4_TermCaseIrrelevant ==
  \A t \in Terms :
    toLowerCase(t) = toLowerCase(searchTerm) =>
      computeFiltered(allProjects, t, selectedTags) = filteredProjects

\* the term "AA" finds the project named "aA", as the term "aa" does
C4_Witness ==
  /\ event = "setSearchTerm"
  /\ searchTerm = <<"A", "A">>
  /\ \E i \in 1..Len(allProjects) :
       Visible(i) /\ allProjects[i].name = <<"a", "A">>
  /\ computeFiltered(allProjects, <<"a", "a">>, selectedTags) = filteredProjects

\* C5: with the empty term every project passes the search predicate: the
\* Visible Set is decided by the tag predicate alone, and is the whole catalog
\* in order when no tag is selected.
C5_EmptyTermMatchesAll ==
  searchTerm = <<>> =>
    /\ \A i \in 1..Len(allProjects) :
         Visible(i) <=> CarriesAll(allProjects[i], selectedTags)
    /\ selectedTags = {} => filteredProjects = allProjects

\* the search box emptied again while a tag keeps one project of two hidden
C5_Witness ==
  /\ event = "setSearchTerm"
  /\ searchTerm = <<>>
  /\ selectedTags # {}
  /\ Len(allProjects) = 2
  /\ Len(filteredProjects) = 1

\* C6: with no tag selected every project passes the tag predicate: the
\* Visible Set is decided by the search predicate alone, and is the whole
\* catalog in order when the term is empty.
C6_EmptySelectionMatchesAll ==
  selectedTags = {} =>
    /\ \A i \in 1..Len(allProjects) :
         Visible(i) <=> (searchTerm = <<>> \/ TermFound(allProjects[i], searchTerm))
    /\ searchTerm = <<>> => filteredProjects = allProjects

\* the tags cleared while a term keeps one project of two hidden
C6_Witness ==
  /\ event = "clearTags"
  /\ selectedTags = {}
  /\ searchTerm # <<>>
  /\ Len(allProjects) = 2
  /\ Len(filteredProjects) = 1

\* C7: toggle is an involution: after a toggle(t) step, toggling t once more
\* gives back exactly the selection, and so the Visible Set, from before the
\* step, whether t was selected before it or not.
C7_ToggleTwiceRestores ==
  [][\A i \in DOMAIN uniqueTags :
       (event' = "toggle" /\ ToggleEvent(i)) =>
         LET again == toggleUpdater(selectedTags', uniqueTags[i])
         IN /\ again = selectedTags
            /\ computeFiltered(allProjects, searchTerm', again) = filteredProjects]_vars

\* a tag toggled on and off again under a term that hides a project
C7_Witness ==
  /\ event = "toggle"
  /\ selectedTags = {}
  /\ searchTerm # <<>>
  /\ Len(uniqueTags) >= 2
  /\ Len(filteredProjects) < Len(allProjects)

\* C8: toggle(tag) removes tag when it is selected and adds it otherwise; the
\* membership of every other tag and the search term stay as they were.
C8_ToggleFrame ==
  [][\A i \in DOMAIN uniqueTags :
       (event' = "toggle" /\ ToggleEvent(i)) =>
         /\ uniqueTags[i] \in selectedTags' <=> uniqueTags[i] \notin selectedTags
         /\ \A other \in (selectedTags \cup selectedTags' \cup Range(uniqueTags)) :
              other # uniqueTags[i] =>
                (other \in selectedTags' <=> other \in selectedTags)
         /\ searchTerm' = searchTerm]_vars

\* a toggle that left two or more tags selected next to a typed term
C8_Witness ==
  /\ event = "toggle"
  /\ Cardinality(selectedTags) >= 2
  /\ searchTerm # <<>>

\* C9: clearAll always ends in the initial filter state: empty term, empty
\* selection, and the whole catalog visible.
C9_ClearAllResets ==
  event = "clearAll" =>
    /\ searchTerm = <<>>
    /\ selectedTags = {}
    /\ filteredProjects = allProjects

\* clearAll handled on a catalog that has projects to show again
C9_Witness ==
  /\ event = "clearAll"
  /\ Len(allProjects) >= 1
  /\ Len(filteredProjects) = Len(allProjects)

\* C10: clearAll resets term and selection as one change: while it is handled
\* the Visible Set is computed once, from the fully reset filter state, never
\* from a state with only the tags (or only the term) cleared; and no event
\* computes a Visible Set from a filter state other than the one it ends in.
C10_ClearAllAtomic ==
  /\ event = "clearAll" => renderLog = <<FilterState(<<>>, {})>>
  /\ \A k \in 1..Len(renderLog) :
       renderLog[k] = FilterState(searchTerm, selectedTags)

\* clearAll handled with a single recomputation, tags in the vocabulary
C10_Witness ==
  /\ event = "clearAll"
  /\ Len(renderLog) = 1
  /\ Len(uniqueTags) >= 1

\* C11: clearTags empties the selection whatever the search term is, and
\* leaves the search term exactly as it was.
C11_ClearTagsFrame ==
  [][(event' = "clearTags" /\ ClearTagsEvent) =>
       (selectedTags' = {} /\ searchTerm' = searchTerm)]_vars

\* the tags cleared under a typed term that still shows a project
C11_Witness ==
  /\ event = "clearTags"
  /\ selectedTags = {}
  /\ searchTerm # <<>>
  /\ filteredProjects # <<>>

\* C12: setSearchTerm(text) makes text the search term as typed, spaces
\* included, and leaves the selection unchanged; a term with a trailing space
\* is matched with it and can hide a project the trimmed term would show.
C12_SetSearchTermVerbatim ==
  [][\A text \in Terms :
       (event' = "setSearchTerm" /\ SetSearchTermEvent(text)) =>
         /\ searchTerm' = text
         /\ selectedTags' = selectedTags
         /\ \A i \in 1..Len(allProjects) :
              (\E k \in 1..Len(filteredProjects') : filteredProjects'[k].id = i)
                => TermFound(allProjects[i], text)]_vars

\* "a " typed: a project is hidden that the trimmed term "a" would show
C12_Witness ==
  /\ event = "setSearchTerm"
  /\ searchTerm = <<"a", " ">>
  /\ Trim(searchTerm) = <<"a">>
  /\ selectedTags # {}
  /\ \E i \in 1..Len(allProjects) :
       /\ ~Visible(i)
       /\ \E k \in 1..Len(computeFiltered(allProjects, Trim(searchTerm), selectedTags)) :
            computeFiltered(allProjects, Trim(searchTerm), selectedTags)[k].id = i

\* s comes strictly before t: at the first position where they differ s has
\* the smaller code unit, or s ends there and t goes on
Precedes(s, t) ==
  \E k \in 1..(Len(s) + 1) :
    /\ \A j \in 1..(k - 1) : j <= Len(t) /\ s[j] = t[j]
    /\ k <= Len(t)
    /\ (k <= Len(s) => CharCode(s[k]) < CharCode(t[k]))

AllProjectTags == UNION {Range(allProjects[i].tags) : i \in 1..Len(allProjects)}

VocabularyIsSortedUnion ==
  /\ Range(uniqueTags) = AllProjectTags
  /\ \A i, j \in 1..Len(uniqueTags) : i # j => uniqueTags[i] # uniqueTags[j]
  /\ \A i \in 1..(Len(uniqueTags) - 1) : Precedes(uniqueTags[i], uniqueTags[i + 1])
  /\ allProjects = <<>> => uniqueTags = <<>>

\* C13: for any catalog, the empty one included, the Tag Vocabulary holds
\* exactly the tags of the projects, each once, in ascending order (empty for
\* the empty catalog), and it is the same value in every state of the session.
C13_VocabularySortedUniqueStable ==
  /\ []VocabularyIsSortedUnion
  /\ [][uniqueTags' = uniqueTags]_vars

\* a catalog whose tags are met in the order Ab, b, A, B, after a toggle
C13_Witness ==
  /\ event = "toggle"
  /\ Len(allProjects) = 2
  /\ allProjects[1].tags = <<TagAb, Tagb>>
  /\ allProjects[2].tags = <<TagA, TagB>>
  /\ uniqueTags = <<TagA, TagAb, TagB, Tagb>>

\* no project of the catalog has a tag equal, up to case, to t
CarriedByNone(t) ==
  \A i \in 1..Len(allProjects) :
    \A k \in 1..Len(allProjects[i].tags) : ~SameIgnoringCase(allProjects[i].tags[k], t)

\* C14: when the selection contains a tag that no project carries (up to
\* letter case), the Visible Set computed from it is empty, whatever the term
\* and the other selected tags are.
C14_UnmatchedTagShowsNothing ==
  (event = "filter" /\ \E t \in selectedTags : CarriedByNone(t)) =>
    filteredProjects = <<>>

\* "A" selected over projects tagged [Ab,b] only, next to a carried tag and
\* with the empty term: nothing is shown
C14_Witness ==
  /\ event = "filter"
  /\ Len(allProjects) >= 1
  /\ \A i \in 1..Len(allProjects) : allProjects[i].tags = <<TagAb, Tagb>>
  /\ searchTerm = <<>>
  /\ selectedTags = {TagA, Tagb}
  /\ filteredProjects = <<>>

\* C15: no state is terminal: every text is accepted by setSearchTerm and
\* some text changes the state, every chip of the vocabulary can be toggled;
\* and the initial filter state stays reachable: setSearchTerm("") is always
\* possible and keeps the selection, clearTags then empties a non-empty
\* selection, and the empty term with the empty selection shows everything.
C15_NoTerminalState ==
  /\ \A text \in Terms : ENABLED SetSearchTermEvent(text)
  /\ \E text \in Terms : ENABLED (SetSearchTermEvent(text) /\ searchTerm' # searchTerm)
  /\ \A i \in DOMAIN uniqueTags : ENABLED ToggleEvent(i)
  /\ ENABLED (SetSearchTermEvent(<<>>) /\ searchTerm' = <<>>
                /\ selectedTags' = selectedTags)
  /\ (searchTerm = <<>> /\ selectedTags # {}) =>
       ENABLED (ClearTagsEvent /\ searchTerm' = <<>> /\ selectedTags' = {}
                  /\ filteredProjects' = allProjects)
  /\ (searchTerm = <<>> /\ selectedTags = {}) => filteredProjects = allProjects

\* a state far from the initial one: a term, a selection, nothing shown
C15_Witness ==
  /\ event = "toggle"
  /\ searchTerm # <<>>
  /\ Cardinality(selectedTags) = 1
  /\ Len(allProjects) >= 1
  /\ filteredProjects = <<>>
  /\ ENABLED Next

\* C16: the Visible Set is never stale: after every event it equals the
\* derivation from the current term and the current selection, and a toggle,
\* a clearTags and a clearAll are each seen as a change of the dependencies:
\* the derivation ran, once, on the filter state the event ended in.
C16_VisibleNeverStale ==
  /\ filteredProjects = computeFiltered(allProjects, searchTerm, selectedTags)
  /\ event \in {"toggle", "clearTags", "clearAll"} =>
       renderLog = <<FilterState(searchTerm, selectedTags)>>
  /\ (event = "setSearchTerm" /\ renderLog # <<>>) =>
       renderLog = <<FilterState(searchTerm, selectedTags)>>

\* a toggle whose recomputation changed what is shown
C16_Witness ==
  /\ event = "toggle"
  /\ renderLog = <<FilterState(searchTerm, selectedTags)>>
  /\ selectedTags # {}
  /\ filteredProjects # <<>>
  /\ Len(filteredProjects) < Len(allProjects)

\* C17: two tags that differ only in letter case are two entries of the Tag
\* Vocabulary (every spelling of a project tag is kept as written), yet they
\* are interchangeable in matching: selecting one, the other or both gives
\* the same Visible Set, so a project carrying one spelling satisfies a
\* selection of the other.
C17_CaseAsymmetry ==
  /\ AllProjectTags \subseteq Range(uniqueTags)
  /\ \A i, j \in DOMAIN uniqueTags :
       (i # j /\ SameIgnoringCase(uniqueTags[i], uniqueTags[j])) =>
         LET rest == selectedTags \ {uniqueTags[i], uniqueTags[j]}
             one == computeFiltered(allProjects, searchTerm, rest \cup {uniqueTags[i]})
             other == computeFiltered(allProjects, searchTerm, rest \cup {uniqueTags[j]})
             both == computeFiltered(allProjects, searchTerm,
                                     rest \cup {uniqueTags[i], uniqueTags[j]})
         IN /\ uniqueTags[i] # uniqueTags[j]
            /\ one = other
            /\ one = both
            /\ uniqueTags[i] \in selectedTags => filteredProjects = other

\* chips "B" and "b" both exist; "b" selected shows a project tagged [A,B]
C17_Witness ==
  /\ event = "toggle"
  /\ TagB \in Range(uniqueTags)
  /\ Tagb \in Range(uniqueTags)
  /\ selectedTags = {Tagb}
  /\ \E i \in 1..Len(allProjects) :
       Visible(i) /\ allProjects[i].tags = <<TagA, TagB>>

\* C18: the selection is always a subset of the Tag Vocabulary, so every
\* selected tag is carried by some project, and with the empty term and
\* exactly one tag selected the Visible Set is not empty.
C18_SelectionWithinVocabulary ==
  /\ selectedTags \subseteq Range(uniqueTags)
  /\ \A t \in selectedTags :
       \E i \in 1..Len(allProjects) : t \in Range(allProjects[i].tags)
  /\ (searchTerm = <<>> /\ Cardinality(selectedTags) = 1) => filteredProjects # <<>>

\* one chip selected under the empty term: some but not all projects shown
C18_Witness ==
  /\ event = "toggle"
  /\ searchTerm = <<>>
  /\ Cardinality(selectedTags) = 1
  /\ filteredProjects # <<>>
  /\ Len(filteredProjects) < Len(allProjects)

\* C19: clearTags is enabled exactly when a tag is selected; clearAll is
\* enabled exactly when nothing is visible and the term is non-empty or a tag
\* is selected.  So clearAll is never enabled while a project is visible, and
\* with a term, no tag and a project visible neither clear event is enabled.
C19_ClearEventsEnabling ==
  /\ ENABLED ClearTagsEvent <=> selectedTags # {}
  /\ ENABLED ClearAllEvent <=>
       (filteredProjects = <<>> /\ (searchTerm # <<>> \/ selectedTags # {}))
  /\ filteredProjects # <<>> => ~ENABLED ClearAllEvent
  /\ (searchTerm # <<>> /\ selectedTags = {} /\ filteredProjects # <<>>) =>
       (~ENABLED ClearTagsEvent /\ ~ENABLED ClearAllEvent)

\* a term typed, no tag selected, a project shown: no clear button
C19_Witness ==
  /\ event = "setSearchTerm"
  /\ searchTerm # <<>>
  /\ selectedTags = {}
  /\ filteredProjects # <<>>
  /\ ~ENABLED ClearTagsEvent
  /\ ~ENABLED ClearAllEvent

\* s can be obtained from t by deleting elements
RECURSIVE IsSubsequence(_, _)
IsSubsequence(s, t) ==
  IF s = <<>> THEN TRUE
  ELSE IF t = <<>> THEN FALSE
  ELSE IF Head(s) = Head(t) THEN IsSubsequence(Tail(s), Tail(t))
  ELSE IsSubsequence(s, Tail(t))

\* C20: narrowing the filter never reveals a project: for the current term,
\* the Visible Set with one more tag selected is a subsequence of the current
\* one, which is a subsequence of the one with a tag fewer; and the current
\* Visible Set is a subsequence of the one under the empty term.
C20_NarrowingNeverReveals ==
  /\ \A i \in DOMAIN uniqueTags :
       /\ IsSubsequence(
            computeFiltered(allProjects, searchTerm, selectedTags \cup {uniqueTags[i]}),
            filteredProjects)
       /\ IsSubsequence(
            filteredProjects,
            computeFiltered(allProjects, searchTerm, selectedTags \ {uniqueTags[i]}))
  /\ IsSubsequence(filteredProjects, computeFiltered(allProjects, <<>>, selectedTags))

\* a state where one more tag hides a project and the term hides another
C20_Witness ==
  /\ event = "toggle"
  /\ searchTerm # <<>>
  /\ selectedTags # {}
  /\ filteredProjects # <<>>
  /\ Len(filteredProjects) < Len(computeFiltered(allProjects, <<>>, selectedTags))
  /\ \E i \in DOMAIN uniqueTags :
       /\ uniqueTags[i] \notin selectedTags
       /\ Len(computeFiltered(allProjects, searchTerm,
                              selectedTags \cup {uniqueTags[i]})) < Len(filteredProjects)

====
